---- MODULE Spec2Model ----
(***************************************************************************)
(* State-machine model of simulator.py: the command-line surface           *)
(* (get_args), Simulator.__init__, Simulator.reset, Simulator.run and      *)
(* Simulator.autoplay.  The game engine (World) and the logging            *)
(* suppression context manager (all_logging_disabled) live in other        *)
(* modules; they are modelled from their documented contracts.             *)
(*                                                                         *)
(* Win credits are stored doubled (a win is 2, a tie is 1 for each side)   *)
(* so that the 0.5 of the code stays an integer; sums of 1.0 and 0.5 are   *)
(* exact in binary floating point, so nothing is lost.                     *)
(***************************************************************************)
EXTENDS Integers, Sequences, FiniteSets, TLC

\* ---------------------------------------------------------------- bounds
MaxRuns == 2
MaxSteps == 2

\* ------------------------------------------------------- program constants
NOTSET == 0
DEBUG == 10
INFO == 20
WARNING == 30
CRITICAL == 50

\* level given to logging.basicConfig
RootLevel == INFO

Scores == {0, 1}
Durations == {1, 2}

\* ------------------------------------------------------ strings as chars
Digits == <<"0", "1", "2", "3", "4", "5", "6", "7", "8", "9">>

S_boards == <<"b", "o", "a", "r", "d", "s", "/">>
S_5 == <<"5">>
S_0 == <<"0">>
S_empty == <<"e", "/">>
S_missing == <<"m", "/">>
S_csv == <<".", "c", "s", "v">>
S_board == <<".", "b", "o", "a", "r", "d">>
F_a_csv == <<"a", ".", "c", "s", "v">>
F_b_board == <<"b", ".", "b", "o", "a", "r", "d">>
F_c_txt == <<"c", ".", "t", "x", "t">>

\* str.endswith
EndsWith(s, suf) ==
    /\ Len(s) >= Len(suf)
    /\ SubSeq(s, Len(s) - Len(suf) + 1, Len(s)) = suf

\* os.path.join(a, b) for a relative b
PathJoin(a, b) ==
    IF a = <<>> \/ a[Len(a)] = "/" THEN a \o b ELSE a \o <<"/">> \o b

\* ------------------------------------------------------- python values
PyNone == [t |-> "none", s |-> <<>>, n |-> 0]
PyStr(s) == [t |-> "str", s |-> s, n |-> 0]
PyInt(n) == [t |-> "int", s |-> <<>>, n |-> n]

\* truth value of a python object (None, str, int)
Truthy(v) ==
    \/ v.t = "str" /\ v.s # <<>>
    \/ v.t = "int" /\ v.n # 0

IsDigit(c) == \E k \in 1..Len(Digits) : Digits[k] = c
DigitVal(c) == (CHOOSE k \in 1..Len(Digits) : Digits[k] = c) - 1

RECURSIVE DecVal(_)
DecVal(s) ==
    IF s = <<>> THEN 0
    ELSE 10 * DecVal(SubSeq(s, 1, Len(s) - 1)) + DigitVal(s[Len(s)])

\* int(s) on a string of the program's inputs: a non-empty run of decimal
\* digits converts, anything else raises ValueError
IntOk(s) == s # <<>> /\ \A k \in 1..Len(s) : IsDigit(s[k])
IntOf(s) == PyInt(DecVal(s))

\* ---------------------------------------------------------- file system
\* the directories that exist and their listings (os.path.isdir / os.listdir)
DirNames == {S_boards, S_5, S_empty}
ListDir(d) ==
    IF d = S_boards THEN <<F_a_csv, F_b_board, F_c_txt>>
    ELSE IF d = S_5 THEN <<F_b_board, F_c_txt>>
    ELSE <<F_c_txt>>
IsDir(d) == d \in DirNames

IsBoardFile(fname) == EndsWith(fname, S_csv) \/ EndsWith(fname, S_board)

RECURSIVE FilterBoards(_, _)
FilterBoards(d, names) ==
    IF names = <<>> THEN <<>>
    ELSE LET rest == FilterBoards(d, Tail(names))
         IN IF IsBoardFile(Head(names))
            THEN <<PathJoin(d, Head(names))>> \o rest
            ELSE rest

\* the roster Simulator.__init__ computes for a board_roster_dir value
Roster(v) ==
    IF Truthy(v)
    THEN IF v.t = "str" /\ IsDir(v.s)
         THEN FilterBoards(v.s, ListDir(v.s))
         ELSE <<>>
    ELSE <<>>

\* ------------------------------------------------------------------ state
VARIABLES
    pc,             \* position of the program
    argv,           \* the command line, when the program is started from it
    args,           \* the argparse.Namespace
    board_options,  \* Simulator.board_options
    world,          \* Simulator.world
    engine,         \* which engine implementation World is
    i,              \* autoplay: loop index
    swap_players,   \* swap flag of the match in progress
    p1_win_count,   \* autoplay: credit of args.player_1 (doubled)
    p2_win_count,   \* autoplay: credit of args.player_2 (doubled)
    p1_times,       \* autoplay: turn times of args.player_1
    p2_times,       \* autoplay: turn times of args.player_2
    is_end,         \* run: result of the last step
    p0_score,       \* run: seat-1 score of the last step
    p1_score,       \* run: seat-2 score of the last step
    disable,        \* logging.root.manager.disable
    previous_level, \* level saved by all_logging_disabled
    output,         \* log records that reached the output
    error,          \* the exception that ended the program, or "none"
    built,          \* number of World constructor calls so far
    nsteps,         \* number of step() calls on the current World
    step_after_end  \* TRUE once step() was called on a World that had ended

vars == <<pc, argv, args, board_options, world, engine, i, swap_players, p1_win_count,
          p2_win_count, p1_times, p2_times, is_end, p0_score, p1_score,
          disable, previous_level, output, error, built, nsteps,
          step_after_end>>

NoWorld ==
    [alive |-> FALSE, player_1 |-> "", player_2 |-> "", board_fpath |-> PyNone,
     display_ui |-> FALSE, autoplay |-> FALSE, ended |-> FALSE,
     p0_score |-> 0, p1_score |-> 0, p0_time |-> <<>>, p1_time |-> <<>>]

NoArgs ==
    [player_1 |-> "", player_2 |-> "", board_path |-> PyNone,
     board_roster_dir |-> PyNone, display |-> FALSE, autoplay |-> FALSE,
     autoplay_runs |-> 0]

NoArgv == [cli |-> FALSE, given |-> FALSE, dir |-> <<>>]

PlayerPairs == {<<"A", "B">>, <<"A", "A">>}
BoardPaths == {PyNone, PyStr(PathJoin(S_boards, F_a_csv))}
RosterDirs == {PyStr(S_boards), PyStr(S_empty), PyStr(S_missing), PyNone}
ArgvDirs == {S_boards, S_5, S_0}
InitialDisable == {NOTSET, DEBUG}

\* engines the harness is run against: one whose scores are unconstrained,
\* and engines whose scores do not depend on the agents seated: the same
\* winning seat in every match, a tie in every match, or a winning seat
\* that depends on the board only
EngineKinds == {"free", "seat1_wins", "seat2_wins", "tie", "by_board"}
AgentBlindKinds == {"seat1_wins", "seat2_wins", "tie", "by_board"}
SameOutcomeKinds == {"seat1_wins", "seat2_wins", "tie"}

\* the score pairs a step of the engine may report
EnginePairs(kind, board) ==
    IF kind = "free" THEN Scores \X Scores
    ELSE IF kind = "seat1_wins" THEN {<<1, 0>>}
    ELSE IF kind = "seat2_wins" THEN {<<0, 1>>}
    ELSE IF kind = "tie" THEN {<<0, 0>>, <<1, 1>>}
    ELSE IF board = PyStr(PathJoin(S_boards, F_a_csv)) THEN {<<1, 0>>}
    ELSE {<<0, 1>>}

\* the Namespace fields that do not come from --board_roster_dir
\* (a fixed board is given only to single runs, which ignore the run count)
ArgsChoices ==
    {r \in {[player_1 |-> pp[1], player_2 |-> pp[2], board_path |-> bp,
             board_roster_dir |-> PyNone, display |-> d, autoplay |-> a,
             autoplay_runs |-> n] :
                pp \in PlayerPairs, bp \in BoardPaths, d \in BOOLEAN,
                a \in BOOLEAN, n \in 0..MaxRuns} :
        /\ r.autoplay => r.board_path = PyNone
        /\ ~r.autoplay => r.autoplay_runs = MaxRuns}

\* ---------------------------------------------------------------- logging
\* Logger.isEnabledFor
IsEnabledFor(level) == level > disable /\ level >= RootLevel

Emit(level, line) == IF IsEnabledFor(level) THEN Append(output, line) ELSE output

WarningLine == [kind |-> "display_warning", agent |-> 0, x |-> 0, y |-> 0, max |-> 0]
RunFinishedLine(s0, s1) ==
    [kind |-> "run_finished", agent |-> 0, x |-> s0, y |-> s1, max |-> 0]
SummaryLine(agent, credit, runs, m) ==
    [kind |-> "summary", agent |-> agent, x |-> credit, y |-> runs, max |-> m]

\* all_logging_disabled(): level set on entry, level set on exit
all_logging_disabled_enter == CRITICAL
all_logging_disabled_exit(prev) == prev

\* the program is inside the `with all_logging_disabled()` block
InWith == args.autoplay /\ pc \in {"for", "step", "ret"}

\* variant: the suppression is not undone when an exception leaves the loop
LevelAfterRaise_NoCleanup == disable

\* verbosity after control leaves the current position by an exception
LevelAfterRaise ==
    IF InWith THEN all_logging_disabled_exit(previous_level) ELSE disable

\* an exception nobody catches: it unwinds through the with block, if any,
\* and ends the program
Raise(exc) ==
    /\ error' = exc
    /\ pc' = "failed"
    /\ disable' = LevelAfterRaise

\* np.max of a sequence of numbers
RECURSIVE SeqMax(_)
SeqMax(s) ==
    IF Len(s) = 1 THEN s[1]
    ELSE LET m == SeqMax(Tail(s)) IN IF s[1] > m THEN s[1] ELSE m

\* ------------------------------------------------------------------- Init
Init ==
    \* either the program is started from the command line, or a caller
    \* builds the Namespace (with a usable or unusable roster directory, and
    \* two different agents) and the Simulator itself
    /\ \/ /\ pc = "main"
          /\ argv \in {[cli |-> TRUE, given |-> g, dir |-> d] :
                           g \in BOOLEAN, d \in ArgvDirs}
          /\ (~argv.given => argv.dir = S_boards)
          /\ args = NoArgs
       \/ /\ pc = "init"
          /\ argv = NoArgv
          /\ \E a \in ArgsChoices, r \in RosterDirs :
                /\ a.player_1 # a.player_2
                /\ args = [a EXCEPT !.board_roster_dir = r]
    /\ board_options = <<>>
    /\ world = NoWorld
    /\ engine \in EngineKinds
    /\ i = 0
    /\ swap_players = FALSE
    /\ p1_win_count = 0
    /\ p2_win_count = 0
    /\ p1_times = <<>>
    /\ p2_times = <<>>
    /\ is_end = FALSE
    /\ p0_score = 0
    /\ p1_score = 0
    /\ disable \in InitialDisable
    /\ previous_level = NOTSET
    /\ output = <<>>
    /\ error = "none"
    /\ built = 0
    /\ nsteps = 0
    /\ step_after_end = FALSE

\* --------------------------------------------------------------- get_args
\* the string argparse converts for --board_roster_dir: the given value, or
\* the string default
RosterArg == IF argv.given THEN argv.dir ELSE S_boards

\* type=int conversion of --board_roster_dir
RosterConvOk(s) == IntOk(s)
RosterConv(s) == IntOf(s)

GetArgsOk ==
    /\ pc = "main"
    /\ RosterConvOk(RosterArg)
    /\ \E a \in ArgsChoices :
          args' = [a EXCEPT !.board_roster_dir = RosterConv(RosterArg)]
    /\ pc' = "init"
    /\ UNCHANGED <<argv, engine, board_options, world, i, swap_players, p1_win_count,
                   p2_win_count, p1_times, p2_times, is_end, p0_score,
                   p1_score, disable, previous_level, output, error, built,
                   nsteps, step_after_end>>

\* parser.error(): usage message and exit status 2
GetArgsError ==
    /\ pc = "main"
    /\ ~RosterConvOk(RosterArg)
    /\ pc' = "exited"
    /\ error' = "SystemExit"
    /\ UNCHANGED <<argv, engine, args, board_options, world, i, swap_players,
                   p1_win_count, p2_win_count, p1_times, p2_times, is_end,
                   p0_score, p1_score, disable, previous_level, output, built,
                   nsteps, step_after_end>>

\* ----------------------------------------------------- Simulator.__init__
Construct ==
    /\ pc = "init"
    /\ board_options' = Roster(args.board_roster_dir)
    /\ pc' = "ready"
    /\ UNCHANGED <<argv, engine, args, world, i, swap_players, p1_win_count,
                   p2_win_count, p1_times, p2_times, is_end, p0_score,
                   p1_score, disable, previous_level, output, error, built,
                   nsteps, step_after_end>>

\* -------------------------------------------------------- Simulator.reset
\* the agents reset seats as player_1 and player_2 of the World
Seats(swap) ==
    IF swap THEN <<args.player_2, args.player_1>>
    ELSE <<args.player_1, args.player_2>>

\* the board reset hands to the World
BoardFor(board_fpath) ==
    IF board_fpath = PyNone THEN args.board_path ELSE board_fpath

\* World(...) as constructed by reset
NewWorld(swap, board_fpath) ==
    [alive |-> TRUE, player_1 |-> Seats(swap)[1], player_2 |-> Seats(swap)[2],
     board_fpath |-> BoardFor(board_fpath), display_ui |-> args.display,
     autoplay |-> args.autoplay, ended |-> FALSE,
     p0_score |-> 0, p1_score |-> 0, p0_time |-> <<>>, p1_time |-> <<>>]

\* run() up to its first step: reset succeeded
RunReset(swap, board_fpath) ==
    /\ world' = NewWorld(swap, board_fpath)
    /\ built' = built + 1
    /\ nsteps' = 0
    /\ swap_players' = swap
    /\ is_end' = FALSE
    /\ p0_score' = 0
    /\ p1_score' = 0
    /\ pc' = "step"

\* run() up to its first step: the World constructor raised
RunResetFails(swap) ==
    /\ built' = built + 1
    /\ swap_players' = swap
    /\ Raise("EngineConstructionError")
    /\ UNCHANGED <<world, nsteps, is_end, p0_score, p1_score>>

\* ---------------------------------------------------------- World.step
\* the seat whose turn it is: seat 1 (index 0) opens, then turns alternate
Mover(w) == IF Len(w.p0_time) <= Len(w.p1_time) THEN 0 ELSE 1

\* one turn of the engine: the seat that moved is timed, the engine reports
\* whether the game is over and the two scores
WorldStep(w, seat, d, e, sc) ==
    [w EXCEPT !.p0_time = IF seat = 0 THEN Append(@, d) ELSE @,
              !.p1_time = IF seat = 1 THEN Append(@, d) ELSE @,
              !.ended = e,
              !.p0_score = sc[1],
              !.p1_score = sc[2]]

\* ----------------------------------------------------------- Simulator.run
\* run calls step once, and again while the last step was not terminal
StepGuard == nsteps = 0 \/ ~is_end

\* is_end, p0_score, p1_score = self.world.step()
StepResult(w) ==
    /\ is_end' = w.ended
    /\ p0_score' = w.p0_score
    /\ p1_score' = w.p1_score

\* variant: run steps the engine once and returns
AfterStep_Once(e) == "ret"

\* where run goes after a step
AfterStep(e) == IF e THEN "ret" ELSE "step"

Step ==
    /\ pc = "step"
    /\ StepGuard
    /\ \E d \in Durations, e \in BOOLEAN,
          sc \in EnginePairs(engine, world.board_fpath) :
          /\ (nsteps + 1 >= MaxSteps => e)
          /\ world' = WorldStep(world, Mover(world), d, e, sc)
          /\ StepResult(world')
          /\ pc' = AfterStep(is_end')
    /\ nsteps' = nsteps + 1
    /\ step_after_end' = (step_after_end \/ world.ended)
    /\ UNCHANGED <<argv, engine, args, board_options, i, swap_players, p1_win_count,
                   p2_win_count, p1_times, p2_times, disable, previous_level,
                   output, error, built>>

\* variant: autoplay swallows a failing step and goes on to the next match
StepFails_Swallowed ==
    /\ pc = "step"
    /\ StepGuard
    /\ nsteps' = nsteps + 1
    /\ step_after_end' = (step_after_end \/ world.ended)
    /\ error' = "EngineStepError"
    /\ i' = i + 1
    /\ pc' = "for"
    /\ UNCHANGED <<argv, engine, args, board_options, world, swap_players,
                   p1_win_count, p2_win_count, p1_times, p2_times, is_end,
                   p0_score, p1_score, disable, previous_level, output, built>>

StepFails ==
    /\ pc = "step"
    /\ StepGuard
    /\ nsteps' = nsteps + 1
    /\ step_after_end' = (step_after_end \/ world.ended)
    /\ Raise("EngineStepError")
    /\ UNCHANGED <<argv, engine, args, board_options, world, i, swap_players,
                   p1_win_count, p2_win_count, p1_times, p2_times, is_end,
                   p0_score, p1_score, previous_level, output, built>>

\* what run returns
RunResult == <<p0_score, p1_score, world.p0_time, world.p1_time>>

\* main: simulator.run()
RunSingle ==
    /\ pc = "ready"
    /\ ~args.autoplay
    /\ \/ /\ RunReset(FALSE, PyNone)
          /\ UNCHANGED <<error, disable>>
       \/ RunResetFails(FALSE)
    /\ UNCHANGED <<argv, engine, args, board_options, i, p1_win_count, p2_win_count,
                   p1_times, p2_times, previous_level, output, step_after_end>>

\* run's log record and return, outside autoplay
RunSingleReturn ==
    /\ pc = "ret"
    /\ ~args.autoplay
    /\ output' = Emit(INFO, RunFinishedLine(RunResult[1], RunResult[2]))
    /\ pc' = "done"
    /\ UNCHANGED <<argv, engine, args, board_options, world, i, swap_players,
                   p1_win_count, p2_win_count, p1_times, p2_times, is_end,
                   p0_score, p1_score, disable, previous_level, error, built,
                   nsteps, step_after_end>>

\* ------------------------------------------------------ Simulator.autoplay
\* variant: seats are never swapped
SwapOf_Never(k) == FALSE

SwapOf(k) == k % 2 = 0

\* variant: the result of a swapped match is aggregated as returned
Remap_NoUnswap(swap, r) == r

\* the result of a match as autoplay aggregates it
Remap(swap, r) == IF swap THEN <<r[2], r[1], r[4], r[3]>> ELSE r

\* variant: a tie earns nobody anything
Credit_TieUncounted(a, b) ==
    IF a > b THEN <<2, 0>>
    ELSE IF a < b THEN <<0, 2>>
    ELSE <<0, 0>>

\* variant: a tie counts as a win of agent 1
Credit_TieToFirst(a, b) == IF a >= b THEN <<2, 0>> ELSE <<0, 2>>

\* credit (doubled) added to agent 1 and to agent 2 for logical scores a, b
Credit(a, b) ==
    IF a > b THEN <<2, 0>>
    ELSE IF a < b THEN <<0, 2>>
    ELSE <<1, 1>>

AutoplayBegin ==
    /\ pc = "ready"
    /\ args.autoplay
    /\ p1_win_count' = 0
    /\ p2_win_count' = 0
    /\ p1_times' = <<>>
    /\ p2_times' = <<>>
    /\ output' = IF args.display THEN Emit(WARNING, WarningLine) ELSE output
    /\ args' = [args EXCEPT !.display = FALSE]
    /\ previous_level' = disable
    /\ disable' = all_logging_disabled_enter
    /\ i' = 0
    /\ pc' = "for"
    /\ UNCHANGED <<argv, engine, board_options, world, swap_players, is_end, p0_score,
                   p1_score, error, built, nsteps, step_after_end>>

\* np.random.randint(0) raises
SelectFails ==
    /\ pc = "for"
    /\ i < args.autoplay_runs
    /\ Len(board_options) = 0
    /\ swap_players' = SwapOf(i)
    /\ Raise("ValueError_randint")
    /\ UNCHANGED <<argv, engine, args, board_options, world, i, p1_win_count,
                   p2_win_count, p1_times, p2_times, is_end, p0_score,
                   p1_score, previous_level, output, built, nsteps,
                   step_after_end>>

\* one pass of the loop up to the first step of the match
MatchStart ==
    /\ pc = "for"
    /\ i < args.autoplay_runs
    /\ \E k \in 0..(Len(board_options) - 1) :
          \/ /\ RunReset(SwapOf(i), PyStr(board_options[k + 1]))
             /\ UNCHANGED <<error, disable>>
          \/ RunResetFails(SwapOf(i))
    /\ UNCHANGED <<argv, engine, args, board_options, i, p1_win_count, p2_win_count,
                   p1_times, p2_times, previous_level, output, step_after_end>>

\* run's log record and return, then the bookkeeping of the match
Aggregate ==
    /\ pc = "ret"
    /\ args.autoplay
    /\ output' = Emit(INFO, RunFinishedLine(RunResult[1], RunResult[2]))
    /\ LET r == Remap(swap_players, RunResult)
           c == Credit(r[1], r[2])
       IN /\ p1_win_count' = p1_win_count + c[1]
          /\ p2_win_count' = p2_win_count + c[2]
          /\ p1_times' = p1_times \o r[3]
          /\ p2_times' = p2_times \o r[4]
    /\ i' = i + 1
    /\ pc' = "for"
    /\ UNCHANGED <<argv, engine, args, board_options, world, swap_players, is_end,
                   p0_score, p1_score, disable, previous_level, error, built,
                   nsteps, step_after_end>>

\* the loop is exhausted: the with block is left normally
LoopExit ==
    /\ pc = "for"
    /\ i >= args.autoplay_runs
    /\ disable' = all_logging_disabled_exit(previous_level)
    /\ pc' = "summary1"
    /\ UNCHANGED <<argv, engine, args, board_options, world, i, swap_players,
                   p1_win_count, p2_win_count, p1_times, p2_times, is_end,
                   p0_score, p1_score, previous_level, output, error, built,
                   nsteps, step_after_end>>

\* np.round(x, 5); turn times are counted in units of 1e-5 s
Round5(x) == x

\* the exception the f-string of a summary line raises, or "none"
SummaryError(times) ==
    IF args.autoplay_runs = 0 THEN "ZeroDivisionError"
    ELSE IF times = <<>> THEN "ValueError_max"
    ELSE "none"

\* variant: an empty timing sequence is reported as a maximum of 0
Summary_DefaultMax(agent, credit, times, next) ==
    /\ IF args.autoplay_runs = 0
       THEN /\ Raise("ZeroDivisionError")
            /\ UNCHANGED output
       ELSE /\ output' = Emit(INFO, SummaryLine(agent, credit,
                                 args.autoplay_runs,
                                 IF times = <<>> THEN 0
                                 ELSE Round5(SeqMax(times))))
            /\ pc' = next
            /\ UNCHANGED <<error, disable>>
    /\ UNCHANGED <<argv, engine, args, board_options, world, i, swap_players,
                   p1_win_count, p2_win_count, p1_times, p2_times, is_end,
                   p0_score, p1_score, previous_level, built, nsteps,
                   step_after_end>>

Summary(agent, credit, times, next) ==
    /\ IF SummaryError(times) # "none"
       THEN /\ Raise(SummaryError(times))
            /\ UNCHANGED output
       ELSE /\ output' = Emit(INFO, SummaryLine(agent, credit,
                                 args.autoplay_runs, Round5(SeqMax(times))))
            /\ pc' = next
            /\ UNCHANGED <<error, disable>>
    /\ UNCHANGED <<argv, engine, args, board_options, world, i, swap_players,
                   p1_win_count, p2_win_count, p1_times, p2_times, is_end,
                   p0_score, p1_score, previous_level, built, nsteps,
                   step_after_end>>

Summary1 == pc = "summary1" /\ Summary(1, p1_win_count, p1_times, "summary2")

Summary2 == pc = "summary2" /\ Summary(2, p2_win_count, p2_times, "done")

\* ------------------------------------------------------------------- Next
Next ==
    \/ GetArgsOk
    \/ GetArgsError
    \/ Construct
    \/ RunSingle
    \/ Step
    \/ StepFails
    \/ RunSingleReturn
    \/ AutoplayBegin
    \/ SelectFails
    \/ MatchStart
    \/ Aggregate
    \/ LoopExit
    \/ Summary1
    \/ Summary2

Spec == Init /\ [][Next]_vars

\* ============================================================== properties
InLoop == args.autoplay /\ pc \in {"for", "step", "ret"}
LoopDone == args.autoplay /\ pc \in {"summary1", "summary2", "done"}
HasLine(kind) == \E k \in DOMAIN output : output[k].kind = kind

\* C1: in autoplay the two credits add up to the number of matches completed
\* so far, and to autoplay_runs once all runs are complete (credits are
\* doubled, so the sum is twice the number of matches).
C1_CreditSum ==
    (InLoop \/ LoopDone) =>
        /\ p1_win_count + p2_win_count = 2 * i
        /\ i <= args.autoplay_runs
        /\ (LoopDone => i = args.autoplay_runs)

\* two matches completed, a tie and a win of agent 2
C1_Witness ==
    /\ pc = "done"
    /\ args.autoplay
    /\ i = 2
    /\ p1_win_count = 1
    /\ p2_win_count = 3

\* C2 (one bookkeeping step): the World was given, for each seat, the agent
\* that occupies it (agent 1 sits in seat 2 when swapped, in seat 1
\* otherwise); the timings of agent 1's seat are appended to p1_times and
\* those of agent 2's seat to p2_times; and the agent in the higher-scoring
\* seat gains one win.
C2_Step ==
    (pc = "ret" /\ args.autoplay /\ pc' = "for") =>
        LET seat1 == IF swap_players THEN 2 ELSE 1
            seat2 == 3 - seat1
            name(seat) == IF seat = 1 THEN world.player_1 ELSE world.player_2
            score(seat) == IF seat = 1 THEN world.p0_score ELSE world.p1_score
            time(seat) == IF seat = 1 THEN world.p0_time ELSE world.p1_time
        IN /\ name(seat1) = args.player_1
           /\ name(seat2) = args.player_2
           /\ p1_times' = p1_times \o time(seat1)
           /\ p2_times' = p2_times \o time(seat2)
           /\ (score(seat1) > score(seat2) =>
                  p1_win_count' = p1_win_count + 2)
           /\ (score(seat2) > score(seat1) =>
                  p2_win_count' = p2_win_count + 2)

\* C2: every match of autoplay, swapped or not, is credited and timed to the
\* logical agents by the seats they occupied.
C2_LogicalIdentity == [][C2_Step]_vars

\* a swapped match between two different agents, won by seat 2 (agent 1),
\* whose seats took different times, has been aggregated
C2_Witness ==
    /\ pc = "for"
    /\ args.autoplay
    /\ i = 1
    /\ swap_players
    /\ args.player_1 # args.player_2
    /\ world.p0_score < world.p1_score
    /\ world.p0_time # world.p1_time
    /\ p1_win_count = 2
    /\ p1_times = world.p1_time

\* C3 (one step): the bookkeeping of a match adds 0.5 to both credits when
\* the scores are equal and 1.0 to exactly one credit when they differ; no
\* other step changes a credit.
C3_Step ==
    LET d1 == p1_win_count' - p1_win_count
        d2 == p2_win_count' - p2_win_count
    IN IF pc = "ret" /\ args.autoplay
       THEN IF p0_score = p1_score
            THEN d1 = 1 /\ d2 = 1
            ELSE <<d1, d2>> \in {<<2, 0>>, <<0, 2>>}
       ELSE d1 = 0 /\ d2 = 0

\* C3: ties split the credit 0.5/0.5, decided matches give 1.0 to one agent,
\* and credits never change otherwise.
C3_TieSplit == [][C3_Step]_vars

\* a tie and a win of agent 1 have been aggregated
C3_Witness ==
    /\ pc = "for"
    /\ args.autoplay
    /\ i = 2
    /\ p1_win_count = 3
    /\ p2_win_count = 1

\* C4 (states): inside the loop everything up to CRITICAL is suppressed; once
\* the loop is left, normally or by an exception, the verbosity is the one
\* saved on entry; no "Run finished" record of autoplay reaches the output;
\* a summary record is in the output only after the verbosity is restored.
C4_State ==
    /\ InLoop => disable = CRITICAL
    /\ (args.autoplay /\ pc \in {"summary1", "summary2", "done", "failed"}) =>
           disable = previous_level
    /\ args.autoplay => ~HasLine("run_finished")
    /\ HasLine("summary") =>
           /\ pc \in {"summary2", "done", "failed"}
           /\ disable = previous_level

\* C4 (entry): the level saved on entry is the verbosity just before the loop
C4_Entry == (pc = "ready" /\ pc' = "for") => previous_level' = disable

\* C4: the verbosity in effect when the loop is left equals the verbosity
\* just before it was entered, on every exit path; "Run finished" is
\* suppressed and the summaries come after the restoration.
C4_VerbosityRestored == []C4_State /\ [][C4_Entry]_vars

\* the second match failed in a step and a non-default verbosity is back
C4_Witness ==
    /\ pc = "failed"
    /\ args.autoplay
    /\ error = "EngineStepError"
    /\ i = 1
    /\ previous_level = DEBUG
    /\ disable = DEBUG

\* C5: with autoplay requested and an empty roster the program ends in a
\* ConfigurationError (and not in another failure).
C5_ConfigurationError ==
    (args.autoplay /\ board_options = <<>> /\ pc = "failed") =>
        error = "ConfigurationError"

\* C6 (states): a summary record in the output was computed from a non-empty
\* timing sequence and carries its maximum; autoplay does not get past a
\* summary whose timing sequence is empty.
C6_State ==
    /\ \A k \in DOMAIN output :
          output[k].kind = "summary" =>
              LET t == IF output[k].agent = 1 THEN p1_times ELSE p2_times
              IN /\ t # <<>>
                 /\ output[k].y # 0
                 /\ output[k].max \in Durations
                 /\ output[k].max = SeqMax(t)
    /\ (args.autoplay /\ pc = "summary2") => p1_times # <<>>
    /\ (args.autoplay /\ pc = "done") => (p1_times # <<>> /\ p2_times # <<>>)

\* C6 (one step): the summary step of an agent without timings fails
C6_Step ==
    (\/ pc = "summary1" /\ p1_times = <<>>
     \/ pc = "summary2" /\ p2_times = <<>>) =>
        /\ pc' = "failed"
        /\ error' \in {"ValueError_max", "ZeroDivisionError"}
        /\ output' = output

\* C6: reaching the summary with an empty timing sequence is fatal, and no
\* summary line with a placeholder maximum is ever emitted.
C6_EmptyTimingsFatal == []C6_State /\ [][C6_Step]_vars

\* one match was played in which agent 1 never moved; its summary failed
C6_Witness ==
    /\ pc = "failed"
    /\ error = "ValueError_max"
    /\ i = 1
    /\ p1_times = <<>>
    /\ p2_times # <<>>
    /\ output = <<>>

\* the credits of a finished tournament are balanced: equal for an even
\* number of runs, at most one win apart for an odd number
Balanced ==
    IF args.autoplay_runs % 2 = 0
    THEN p1_win_count = args.autoplay_runs /\ p2_win_count = args.autoplay_runs
    ELSE /\ p1_win_count - p2_win_count <= 2
         /\ p2_win_count - p1_win_count <= 2

\* match i is played with the seats swapped iff i is even
SwapParity ==
    InLoop /\ pc # "for" =>
        /\ swap_players <=> (i % 2 = 0)
        /\ world.player_1 = (IF i % 2 = 0 THEN args.player_2 ELSE args.player_1)
        /\ world.player_2 = (IF i % 2 = 0 THEN args.player_1 ELSE args.player_2)

\* C7 as stated: swap parity, and balanced credits against every engine
\* whose scores do not depend on the agents seated.
C7_AgentBlindBalanced ==
    /\ SwapParity
    /\ (LoopDone /\ engine \in AgentBlindKinds) => Balanced

\* C7 as amended: swap parity, and balanced credits against every engine
\* with the same seat outcome in every match (seat 1 always wins, seat 2
\* always wins, or always a tie).
C7_SameOutcomeBalanced ==
    /\ SwapParity
    /\ (LoopDone /\ engine \in SameOutcomeKinds) => Balanced

\* two runs against the engine in which seat 1 always wins: one win each
C7_Witness ==
    /\ pc = "done"
    /\ args.autoplay
    /\ engine = "seat1_wins"
    /\ args.autoplay_runs = 2
    /\ p1_win_count = 2
    /\ p2_win_count = 2

\* C8: a failure of the World constructor or of a step ends the program at
\* once: no later match is started and the failed one is not retried (the
\* constructor was called once per match begun), the failed match earns no
\* credit, and no summary line is emitted.
C8_FailurePropagates ==
    error \in {"EngineConstructionError", "EngineStepError"} =>
        /\ pc = "failed"
        /\ ~HasLine("summary")
        /\ ~HasLine("run_finished")
        /\ (args.autoplay =>
               /\ i < args.autoplay_runs
               /\ built = i + 1
               /\ p1_win_count + p2_win_count = 2 * i)
        /\ (~args.autoplay => built = 1)

\* the first of two matches failed in its second step
C8_Witness ==
    /\ pc = "failed"
    /\ error = "EngineStepError"
    /\ args.autoplay
    /\ args.autoplay_runs = 2
    /\ i = 0
    /\ nsteps = 2

\* C9 (states): one World per run; run is about to step only if no step was
\* made yet or the last one was not terminal; it returns only after a
\* terminal step, with the scores of that step and the World's timings; no
\* step is ever made on a World that has ended.
C9_State ==
    /\ ~step_after_end
    /\ pc = "step" => (world.alive /\ StepGuard /\ (nsteps = 0 \/ ~world.ended))
    /\ pc = "ret" =>
           /\ nsteps >= 1
           /\ world.ended
           /\ RunResult = <<world.p0_score, world.p1_score,
                            world.p0_time, world.p1_time>>
    /\ pc \in {"step", "ret"} => built = (IF args.autoplay THEN i + 1 ELSE 1)

\* C9 (one step): while the last step was not terminal the next thing run
\* does is another step
C9_Step == pc = "step" => nsteps' = nsteps + 1

\* C9: run builds one engine, steps it at least once and until the first
\* terminal step, never after it, and returns that step's scores with the
\* engine's timings.
C9_RunLoop == []C9_State /\ [][C9_Step]_vars

\* a single run returned after two steps
C9_Witness ==
    /\ pc = "ret"
    /\ ~args.autoplay
    /\ nsteps = 2
    /\ world.p0_score > world.p1_score
    /\ Len(world.p0_time) = 1
    /\ Len(world.p1_time) = 1

\* the roster of the directory named on the command line
CliRoster == FilterBoards(RosterArg, ListDir(RosterArg))

\* C10: started from the command line with a roster directory that exists
\* and holds a board file, the program builds the roster of exactly those
\* files.
C10_CliRoster ==
    (argv.cli /\ IsDir(RosterArg) /\ CliRoster # <<>> /\ pc \notin {"main", "init"}) =>
        /\ pc # "exited"
        /\ board_options = CliRoster

====
